---- MODULE Spec2Model ----
(***************************************************************************)
(* AirPodsDesktop core: the Apple Continuity "Proximity Pairing" decoder   *)
(* (Source/Core/AppleCP.cpp) and the updater (Source/Core/Update.cpp).     *)
(***************************************************************************)
EXTENDS Integers, Sequences, FiniteSets, TLC

VARIABLES
    data,       \* the advertisement bytes handed to IsValid
    fields,     \* the field values a built advertisement carries
    pc,         \* where the decode pipeline stands
    valid,      \* what IsValid returned
    reads,      \* the offsets IsValid read
    snapshot,   \* what the accessors returned
    response,   \* the text handed to ParseReleaseResponse
    release,    \* what ParseReleaseResponse produced
    upc,        \* where the updater stands
    env,        \* what the file system, the network and the OS answered
    install     \* what DownloadInstall did and returned

decVars == <<data, fields, pc, valid, reads, snapshot>>
updVars == <<response, release, upc, env, install>>
vars == <<decVars, updVars>>

(***************************************************************************)
(* Layout of the advertisement (AppleCP.h, packed, little endian).  The    *)
(* header file is not among the sources; the layout below is the one the   *)
(* accessors of AppleCP.cpp are written against.                           *)
(***************************************************************************)
AdvertisementSize == 27          \* sizeof(AirPods)
ProximityPairing == 7            \* PacketType::ProximityPairing
OffPacketType == 0               \* offsetof(Header, packetType)
OffRemainingLength == 1          \* offsetof(Header, remainingLength)
SizeRemainingLength == 1         \* sizeof(Header::remainingLength)
OffModelId == 3
OffStatus == 5
OffBattery == 6
OffLidState == 8

\* the Continuity packet types a scanner sees
PacketTypes == {3, 5, 6, 7, 8, 9, 11, 12, 13, 14, 15, 16}

Byte == 0..255

\* bit-field extraction: n bits of byte b starting at bit lo
Bits(b, lo, n) == (b \div (2 ^ lo)) % (2 ^ n)

\* byte at a zero-based offset of the buffer
At(d, off) == d[off + 1]

\* the fixed-layout view of a buffer of AdvertisementSize bytes
View(d) ==
    [ packetType      |-> At(d, OffPacketType),
      remainingLength |-> At(d, OffRemainingLength),
      modelId         |-> At(d, OffModelId) + 256 * At(d, OffModelId + 1),
      currInEar       |-> Bits(At(d, OffStatus), 1, 1),
      bothInCase      |-> Bits(At(d, OffStatus), 2, 1),
      anotInEar       |-> Bits(At(d, OffStatus), 3, 1),
      broadcastFrom   |-> Bits(At(d, OffStatus), 5, 1),
      curr            |-> Bits(At(d, OffBattery), 0, 4),
      anot            |-> Bits(At(d, OffBattery), 4, 4),
      caseBox         |-> Bits(At(d, OffBattery + 1), 0, 4),
      currCharging    |-> Bits(At(d, OffBattery + 1), 4, 1),
      anotCharging    |-> Bits(At(d, OffBattery + 1), 5, 1),
      caseCharging    |-> Bits(At(d, OffBattery + 1), 6, 1),
      lidState        |-> At(d, OffLidState) ]

(***************************************************************************)
(* AirPods::IsValid                                                        *)
(***************************************************************************)
shouldRemainingLength ==
    AdvertisementSize - (OffRemainingLength + SizeRemainingLength)

\* a variant that looks at the header before the size
IsValidRunHeaderFirst(d) ==
    [ result |-> /\ Len(d) > OffRemainingLength
                 /\ At(d, OffPacketType) = ProximityPairing
                 /\ At(d, OffRemainingLength) = shouldRemainingLength
                 /\ Len(d) = AdvertisementSize,
      reads  |-> {OffPacketType, OffRemainingLength} ]

\* a variant that forgets the remainingLength comparison
IsValidRunNoRemaining(d) ==
    IF Len(d) # AdvertisementSize
    THEN [result |-> FALSE, reads |-> {}]
    ELSE [result |-> At(d, OffPacketType) = ProximityPairing,
          reads  |-> {OffPacketType}]

\* the run of IsValid on buffer d: its result and the offsets it reads
IsValidRun(d) ==
    IF Len(d) # AdvertisementSize
    THEN [result |-> FALSE, reads |-> {}]
    ELSE IF At(d, OffPacketType) # ProximityPairing
         THEN [result |-> FALSE, reads |-> {OffPacketType}]
         ELSE IF At(d, OffRemainingLength) # shouldRemainingLength
              THEN [result |-> FALSE,
                    reads  |-> {OffPacketType, OffRemainingLength}]
              ELSE [result |-> TRUE,
                    reads  |-> {OffPacketType, OffRemainingLength}]

IsValid(d) == IsValidRun(d).result

(***************************************************************************)
(* Accessors of a validated packet p (a View).                             *)
(***************************************************************************)
GetBroadcastedSideSwapped(p) == IF p.broadcastFrom = 1 THEN "Right" ELSE "Left"

GetBroadcastedSide(p) == IF p.broadcastFrom = 1 THEN "Left" ELSE "Right"

IsLeftBroadcasted(p) == GetBroadcastedSide(p) = "Left"

IsRightBroadcasted(p) == GetBroadcastedSide(p) = "Right"

GetModelSwapped(p) ==
    CASE p.modelId = 8194 -> "AirPods_1"
      [] p.modelId = 8207 -> "AirPods_Pro"
      [] p.modelId = 8206 -> "AirPods_2"
      [] OTHER -> "Unknown"

GetModel(p) ==
    CASE p.modelId = 8194 -> "AirPods_1"       \* 0x2002
      [] p.modelId = 8207 -> "AirPods_2"       \* 0x200F
      [] p.modelId = 8206 -> "AirPods_Pro"     \* 0x200E
      [] OTHER -> "Unknown"

\* Core::AirPods::Battery, an optional level
Some(v) == [has |-> TRUE, val |-> v]
Nullopt == [has |-> FALSE, val |-> 0]

GetLeftBattery(p) ==
    LET val == IF IsLeftBroadcasted(p) THEN p.curr ELSE p.anot
    IN  IF val >= 0 /\ val <= 10 THEN Some(val) ELSE Nullopt

\* a variant that selects by the wrong side
GetRightBatterySameSlot(p) ==
    LET val == IF IsLeftBroadcasted(p) THEN p.curr ELSE p.anot
    IN  IF val >= 0 /\ val <= 10 THEN Some(val) ELSE Nullopt

GetRightBattery(p) ==
    LET val == IF IsRightBroadcasted(p) THEN p.curr ELSE p.anot
    IN  IF val >= 0 /\ val <= 10 THEN Some(val) ELSE Nullopt

\* a variant that clamps an out-of-range nibble
GetCaseBatteryClamped(p) ==
    LET val == p.caseBox
    IN  IF val >= 0 /\ val <= 10 THEN Some(val) ELSE Some(10)

GetCaseBattery(p) ==
    LET val == p.caseBox
    IN  IF val >= 0 /\ val <= 10 THEN Some(val) ELSE Nullopt

IsLeftCharging(p) ==
    (IF IsLeftBroadcasted(p) THEN p.currCharging ELSE p.anotCharging) # 0

IsRightCharging(p) ==
    (IF IsRightBroadcasted(p) THEN p.currCharging ELSE p.anotCharging) # 0

IsBothPodsInCase(p) == p.bothInCase # 0

\* a variant without the lidState == 0 disjunct
IsLidOpenedNoZero(p) ==
    \/ p.lidState = 1 \/ p.lidState = 2 \/ p.lidState = 3 \/ p.lidState = 4
    \/ p.lidState = 5 \/ p.lidState = 6 \/ p.lidState = 7

IsLidOpened(p) ==
    \/ p.lidState = 1 \/ p.lidState = 2 \/ p.lidState = 3 \/ p.lidState = 4
    \/ p.lidState = 5 \/ p.lidState = 6 \/ p.lidState = 7 \/ p.lidState = 0

IsCaseCharging(p) == p.caseCharging # 0

IsLeftInEar(p) ==
    /\ ~IsLeftCharging(p)
    /\ (IF IsLeftBroadcasted(p) THEN p.currInEar ELSE p.anotInEar) # 0

\* a variant without the charging filter
IsRightInEarUnfiltered(p) ==
    (IF IsRightBroadcasted(p) THEN p.currInEar ELSE p.anotInEar) # 0

IsRightInEar(p) ==
    /\ ~IsRightCharging(p)
    /\ (IF IsRightBroadcasted(p) THEN p.currInEar ELSE p.anotInEar) # 0

\* every accessor applied to a validated packet
Decoded(d) ==
    LET p == View(d) IN
    [ side          |-> GetBroadcastedSide(p),
      model         |-> GetModel(p),
      leftBattery   |-> GetLeftBattery(p),
      rightBattery  |-> GetRightBattery(p),
      caseBattery   |-> GetCaseBattery(p),
      leftCharging  |-> IsLeftCharging(p),
      rightCharging |-> IsRightCharging(p),
      caseCharging  |-> IsCaseCharging(p),
      leftInEar     |-> IsLeftInEar(p),
      rightInEar    |-> IsRightInEar(p),
      bothInCase    |-> IsBothPodsInCase(p),
      lidOpened     |-> IsLidOpened(p) ]

(***************************************************************************)
(* Update.cpp.  Strings are sequences of tokens, so that "begins with",    *)
(* "contains" and "suffix" are computed on them.                           *)
(***************************************************************************)
UrlRepository == "https://github.com/SpriteOvO/AirPodsDesktop"
SystemName == "win32"            \* CONFIG_CPACK_SYSTEM_NAME

Min(S) == CHOOSE x \in S : \A y \in S : x <= y
Max(S) == CHOOSE x \in S : \A y \in S : x >= y

\* QString::indexOf / std::string::find: the position of the first
\* occurrence of t in s, counted from 0, or -1
IndexOf(s, t) ==
    LET hits == {i \in 1..Len(s) : s[i] = t}
    IN  IF hits = {} THEN -1 ELSE Min(hits) - 1

\* QFileInfo::suffix: what follows the last '.', empty without one
Suffix(name) ==
    LET dots == {i \in 1..Len(name) : name[i] = "."}
    IN  IF dots = {} THEN <<>> ELSE SubSeq(name, Max(dots) + 1, Len(name))

\* QVersionNumber::normalized: trailing zero segments removed
RECURSIVE Normalized(_)
Normalized(v) ==
    IF Len(v) > 0 /\ v[Len(v)] = 0 THEN Normalized(SubSeq(v, 1, Len(v) - 1))
    ELSE v

\* QVersionNumber operator>: segment by segment, then by length
RECURSIVE VersionGreater(_, _)
VersionGreater(a, b) ==
    IF a = <<>> THEN FALSE
    ELSE IF b = <<>> THEN TRUE
    ELSE IF a[1] # b[1] THEN a[1] > b[1]
    ELSE VersionGreater(Tail(a), Tail(b))

LocalVersion == <<1, 0, 0>>      \* Config::Version::String

\* a JSON member: present with a value of the expected type, present with
\* another type, or absent
Ok(v) == [kind |-> "ok", v |-> v]
WrongType(dflt) == [kind |-> "wrongtype", v |-> dflt]
Missing(dflt) == [kind |-> "missing", v |-> dflt]

NoInfo ==
    [ version |-> <<>>, url |-> <<>>, fileName |-> <<>>,
      downloadUrl |-> <<>>, fileSize |-> 0 ]

Returned(info) == [kind |-> "info", info |-> info]
ReturnedNullopt == [kind |-> "nullopt", info |-> NoInfo]
Aborted == [kind |-> "abort", info |-> NoInfo]

\* what reading member m of a const json object can do: its value, a
\* json::exception for another type, and for an absent key (const
\* operator[], undefined) an assertion abort or an exception on the value
\* found there
ReadOutcomes(m) ==
    CASE m.kind = "ok" -> {"value"}
      [] m.kind = "wrongtype" -> {"throw"}
      [] m.kind = "missing" -> {"abort", "throw"}

\* the members read in order until one fails: the outcomes of the first
\* member that is not a value, {"value"} when all are
RECURSIVE ReadAll(_)
ReadAll(ms) ==
    IF ms = <<>> THEN {"value"}
    ELSE IF ms[1].kind = "ok" THEN ReadAll(Tail(ms))
    ELSE ReadOutcomes(ms[1])

Failure(o) == IF o = "abort" THEN Aborted ELSE ReturnedNullopt

\* the five tests of the asset loop
AssetMatches(name, size, url) ==
    /\ ~(name = <<>> \/ size = 0 \/ url = <<>>)
    /\ IndexOf(url, UrlRepository) = 0
    /\ Suffix(name) = <<"exe">>
    /\ IndexOf(name, SystemName) # -1

\* the asset loop from asset i on
RECURSIVE ScanAssets(_, _, _)
ScanAssets(assets, i, info) ==
    IF i > Len(assets) THEN {Returned(info)}
    ELSE LET a == assets[i]
             got == ReadAll(<<a.name, a.size, a.url>>)
         IN  IF got # {"value"} THEN {Failure(o) : o \in got}
             ELSE IF AssetMatches(a.name.v, a.size.v, a.url.v)
                  THEN {Returned([info EXCEPT !.fileName = a.name.v,
                                              !.downloadUrl = a.url.v,
                                              !.fileSize = a.size.v])}
                  ELSE ScanAssets(assets, i + 1, info)

\* everything ParseReleaseResponse can do on the text r
ParseReleaseResponse(r) ==
    IF r.root = "garbage" THEN {ReturnedNullopt}          \* parse_error
    ELSE IF r.root = "nonobject" THEN {ReturnedNullopt}   \* type_error
    ELSE LET got == ReadAll(<<r.tag_name, r.body, r.html_url>>) IN
         IF got # {"value"} THEN {Failure(o) : o \in got}
         ELSE IF IndexOf(r.html_url.v, UrlRepository) # 0 THEN {ReturnedNullopt}
         ELSE LET info == [NoInfo EXCEPT !.version = r.tag_name.v,
                                         !.url = r.html_url.v]
              IN  CASE r.assets.kind = "ok" -> ScanAssets(r.assets.v, 1, info)
                    [] r.assets.kind = "null" -> {Returned(info)}
                    [] r.assets.kind = "wrongtype" -> {ReturnedNullopt}
                    [] r.assets.kind = "missing" ->
                          {Failure(o) : o \in ReadOutcomes(r.assets)}

CanAutoUpdate(info) ==
    info.fileName # <<>> /\ info.downloadUrl # <<>> /\ info.fileSize # 0

NeedToUpdate(info) ==
    VersionGreater(Normalized(info.version), Normalized(LocalVersion))

HttpOk == 200

\* a variant that launches whatever was downloaded
DownloadInstallRunNoSizeCheck(info, e) ==
    IF ~CanAutoUpdate(info)
    THEN [status |-> "UpdateDownloadCannotAutoUpdate", steps |-> <<>>,
          started |-> FALSE, quit |-> FALSE]
    ELSE IF ~e.tempDirValid
    THEN [status |-> "UpdateDownloadCreateDirectoryFailed",
          steps |-> <<"QTemporaryDir">>, started |-> FALSE, quit |-> FALSE]
    ELSE IF e.statusCode # HttpOk
    THEN [status |-> "UpdateDownloadStatusCodeIsNot200",
          steps |-> <<"QTemporaryDir", "Download">>,
          started |-> FALSE, quit |-> FALSE]
    ELSE IF ~e.startDetached
    THEN [status |-> "UpdateDownloadStartInstallerFailed",
          steps |-> <<"QTemporaryDir", "Download", "startDetached">>,
          started |-> FALSE, quit |-> FALSE]
    ELSE [status |-> "Success",
          steps |-> <<"QTemporaryDir", "Download", "startDetached", "QuitSafety">>,
          started |-> TRUE, quit |-> TRUE]

\* a variant that asks the application to quit before the launch is known
\* to have worked
DownloadInstallRunQuitEarly(info, e) ==
    IF ~CanAutoUpdate(info)
    THEN [status |-> "UpdateDownloadCannotAutoUpdate", steps |-> <<>>,
          started |-> FALSE, quit |-> FALSE]
    ELSE IF ~e.tempDirValid
    THEN [status |-> "UpdateDownloadCreateDirectoryFailed",
          steps |-> <<"QTemporaryDir">>, started |-> FALSE, quit |-> FALSE]
    ELSE IF e.statusCode # HttpOk
    THEN [status |-> "UpdateDownloadStatusCodeIsNot200",
          steps |-> <<"QTemporaryDir", "Download">>,
          started |-> FALSE, quit |-> FALSE]
    ELSE IF e.downloadedBytes # info.fileSize
    THEN [status |-> "UpdateDownloadFileSizeMismatch",
          steps |-> <<"QTemporaryDir", "Download">>,
          started |-> FALSE, quit |-> FALSE]
    ELSE IF ~e.startDetached
    THEN [status |-> "UpdateDownloadStartInstallerFailed",
          steps |-> <<"QTemporaryDir", "Download", "QuitSafety", "startDetached">>,
          started |-> FALSE, quit |-> TRUE]
    ELSE [status |-> "Success",
          steps |-> <<"QTemporaryDir", "Download", "QuitSafety", "startDetached">>,
          started |-> TRUE, quit |-> TRUE]

\* DownloadInstall on info when the environment answers e: the status it
\* returns, the calls it makes in order, whether the installer runs and
\* whether the application was asked to quit
DownloadInstallRun(info, e) ==
    IF ~CanAutoUpdate(info)
    THEN [status |-> "UpdateDownloadCannotAutoUpdate", steps |-> <<>>,
          started |-> FALSE, quit |-> FALSE]
    ELSE IF ~e.tempDirValid
    THEN [status |-> "UpdateDownloadCreateDirectoryFailed",
          steps |-> <<"QTemporaryDir">>, started |-> FALSE, quit |-> FALSE]
    ELSE IF e.statusCode # HttpOk
    THEN [status |-> "UpdateDownloadStatusCodeIsNot200",
          steps |-> <<"QTemporaryDir", "Download">>,
          started |-> FALSE, quit |-> FALSE]
    ELSE IF e.downloadedBytes # info.fileSize
    THEN [status |-> "UpdateDownloadFileSizeMismatch",
          steps |-> <<"QTemporaryDir", "Download">>,
          started |-> FALSE, quit |-> FALSE]
    ELSE IF ~e.startDetached
    THEN [status |-> "UpdateDownloadStartInstallerFailed",
          steps |-> <<"QTemporaryDir", "Download", "startDetached">>,
          started |-> FALSE, quit |-> FALSE]
    ELSE [status |-> "Success",
          steps |-> <<"QTemporaryDir", "Download", "startDetached", "QuitSafety">>,
          started |-> TRUE, quit |-> TRUE]

NoInstall == [status |-> "None", steps |-> <<>>, started |-> FALSE, quit |-> FALSE]
NoEnv ==
    [tempDirValid |-> FALSE, statusCode |-> 0, downloadedBytes |-> 0,
     startDetached |-> FALSE]
NoResponse == [root |-> "none"]

UpdaterIdle ==
    /\ response = NoResponse
    /\ release = ReturnedNullopt
    /\ upc = "idle"
    /\ env = NoEnv
    /\ install = NoInstall

NoSnapshot == [none |-> TRUE]
NoFields == [none |-> TRUE]

(***************************************************************************)
(* Received buffers.                                                       *)
(***************************************************************************)
MaxExtraLen == 1                 \* buffers up to AdvertisementSize + MaxExtraLen

\* a buffer of len bytes with the given bytes at the layout's offsets
Buf(len, type, rem, modelId, status, bat0, bat1, lid) ==
    [ i \in 1..len |->
        CASE i = OffPacketType + 1      -> type
          [] i = OffRemainingLength + 1 -> rem
          [] i = OffModelId + 1         -> modelId % 256
          [] i = OffModelId + 2         -> modelId \div 256
          [] i = OffStatus + 1          -> status
          [] i = OffBattery + 1         -> bat0
          [] i = OffBattery + 2         -> bat1
          [] i = OffLidState + 1        -> lid
          [] OTHER                      -> 0 ]

GoodBuf(modelId, status, bat0, bat1, lid) ==
    Buf(AdvertisementSize, ProximityPairing, shouldRemainingLength,
        modelId, status, bat0, bat1, lid)

RemainingLengths ==
    {0, shouldRemainingLength - 1, shouldRemainingLength,
     shouldRemainingLength + 1, AdvertisementSize, 255}

\* buffers of every length around the record size, with every header
HeaderSweep(d) ==
    \E len \in 0..(AdvertisementSize + MaxExtraLen),
       type \in PacketTypes \cup {0, 255},
       rem \in RemainingLengths :
        d = Buf(len, type, rem, 8207, 32, 138, 9, 1)

\* well-formed packets with every 16-bit modelId
ModelSweep(d) == \E m \in 0..65535 : d = GoodBuf(m, 32, 138, 9, 1)

\* well-formed packets with every status byte and every charging nibble
StatusSweep(d) ==
    \E st \in Byte, ch \in 0..15 : d = GoodBuf(8207, st, 138, 16 * ch + 9, 1)

\* well-formed packets with every battery nibble, from either side
BatterySweep(d) ==
    \E bf \in 0..1, b0 \in Byte, cb \in 0..15 :
        d = GoodBuf(8206, 32 * bf, b0, cb, 8)

\* well-formed packets with every lidState byte
LidSweep(d) == \E lid \in Byte : d = GoodBuf(8194, 0, 138, 9, lid)

(***************************************************************************)
(* The decode pipeline: bytes -> IsValid -> accessors.                     *)
(***************************************************************************)
Init ==
    /\ \/ HeaderSweep(data)
       \/ ModelSweep(data)
       \/ StatusSweep(data)
       \/ BatterySweep(data)
       \/ LidSweep(data)
    /\ fields = NoFields
    /\ pc = "received"
    /\ valid = FALSE
    /\ reads = {}
    /\ snapshot = NoSnapshot
    /\ UpdaterIdle

Validate ==
    /\ pc = "received"
    /\ valid' = IsValid(data)
    /\ reads' = IsValidRun(data).reads
    /\ pc' = IF IsValid(data) THEN "validated" ELSE "rejected"
    /\ UNCHANGED <<data, fields, snapshot>>
    /\ UNCHANGED updVars

Decode ==
    /\ pc = "validated"
    /\ snapshot' = Decoded(data)
    /\ pc' = "decoded"
    /\ UNCHANGED <<data, fields, valid, reads>>
    /\ UNCHANGED updVars

Next == Validate \/ Decode

Spec == Init /\ [][Next]_vars

(***************************************************************************)
(* Round trip: an advertisement built from side-resolved field values,     *)
(* then validated and decoded.                                             *)
(***************************************************************************)
RoundTripLevels == {0, 1, 5, 9, 10}
KnownModels == {"AirPods_1", "AirPods_2", "AirPods_Pro"}

ModelIdOf(m) ==
    CASE m = "AirPods_1" -> 8194
      [] m = "AirPods_2" -> 8207
      [] m = "AirPods_Pro" -> 8206

B2N(b) == IF b THEN 1 ELSE 0

\* the bytes of the advertisement that carries the field values f
Encode(f) ==
    LET left == f.side = "Left"
        curr == IF left THEN f.leftBattery ELSE f.rightBattery
        anot == IF left THEN f.rightBattery ELSE f.leftBattery
        currCharging == IF left THEN f.leftCharging ELSE f.rightCharging
        anotCharging == IF left THEN f.rightCharging ELSE f.leftCharging
        currInEar == IF left THEN f.leftInEar ELSE f.rightInEar
        anotInEar == IF left THEN f.rightInEar ELSE f.leftInEar
    IN  GoodBuf(ModelIdOf(f.model),
                2 * B2N(currInEar) + 4 * B2N(f.bothInCase)
                    + 8 * B2N(anotInEar) + 32 * B2N(left),
                curr + 16 * anot,
                f.caseBattery + 16 * B2N(currCharging)
                    + 32 * B2N(anotCharging) + 64 * B2N(f.caseCharging),
                IF f.lidOpened THEN 1 ELSE 8)

FieldValues ==
    [ side          : {"Left", "Right"},
      model         : KnownModels,
      leftBattery   : RoundTripLevels,
      rightBattery  : RoundTripLevels,
      caseBattery   : RoundTripLevels,
      leftCharging  : BOOLEAN,
      rightCharging : BOOLEAN,
      caseCharging  : BOOLEAN,
      leftInEar     : BOOLEAN,
      rightInEar    : BOOLEAN,
      bothInCase    : BOOLEAN,
      lidOpened     : BOOLEAN ]

RoundTripInit ==
    /\ fields \in FieldValues
    /\ data = <<>>
    /\ pc = "build"
    /\ valid = FALSE
    /\ reads = {}
    /\ snapshot = NoSnapshot
    /\ UpdaterIdle

Build ==
    /\ pc = "build"
    /\ data' = Encode(fields)
    /\ pc' = "received"
    /\ UNCHANGED <<fields, valid, reads, snapshot>>
    /\ UNCHANGED updVars

RoundTripNext == Build \/ Validate \/ Decode

RoundTripSpec == RoundTripInit /\ [][RoundTripNext]_vars

(***************************************************************************)
(* Properties of the decoder.                                              *)
(***************************************************************************)
Checked == pc \in {"validated", "rejected", "decoded"}

\* the three conditions of a well-formed advertisement
LengthOk == Len(data) = AdvertisementSize
TypeOk == At(data, OffPacketType) = ProximityPairing
RemainingOk ==
    At(data, OffRemainingLength)
        = AdvertisementSize - (OffRemainingLength + SizeRemainingLength)

\* C1: IsValid returns true if and only if the length is AdvertisementSize,
\* packetType is ProximityPairing and remainingLength is the derived
\* constant; a buffer that misses any one of the three is rejected.
C1_IsValidIffThree ==
    Checked =>
        /\ valid = (LengthOk /\ TypeOk /\ RemainingOk)
        /\ (pc = "rejected") = ~valid

C1_Witness ==
    /\ pc = "rejected"
    /\ LengthOk /\ TypeOk /\ ~RemainingOk

\* the level an in-range nibble stands for, absent otherwise
Level(v) == IF v \in 0..10 THEN [has |-> TRUE, val |-> v]
                           ELSE [has |-> FALSE, val |-> 0]

\* C2: with broadcastFrom = 1 the side is Left, the left accessors read the
\* curr slot and the right accessors the anot slot; with any other value the
\* side is Right and the mapping is inverted, so left and right never read
\* the same slot.
C2_SideMapping ==
    pc = "decoded" =>
        LET p == View(data) IN
        /\ p.broadcastFrom = 1 =>
            /\ snapshot.side = "Left"
            /\ snapshot.leftBattery = Level(p.curr)
            /\ snapshot.rightBattery = Level(p.anot)
            /\ snapshot.leftCharging = (p.currCharging = 1)
            /\ snapshot.rightCharging = (p.anotCharging = 1)
        /\ p.broadcastFrom # 1 =>
            /\ snapshot.side = "Right"
            /\ snapshot.leftBattery = Level(p.anot)
            /\ snapshot.rightBattery = Level(p.curr)
            /\ snapshot.leftCharging = (p.anotCharging = 1)
            /\ snapshot.rightCharging = (p.currCharging = 1)
        /\ Level(p.curr) # Level(p.anot) =>
            snapshot.leftBattery # snapshot.rightBattery
        /\ p.currCharging # p.anotCharging =>
            snapshot.leftCharging # snapshot.rightCharging

C2_Witness ==
    /\ pc = "decoded"
    /\ View(data).broadcastFrom = 0
    /\ View(data).curr # View(data).anot
    /\ View(data).currCharging = 1
    /\ View(data).anotCharging = 0
    /\ snapshot.rightCharging

\* the raw nibble each side's battery accessor selects
RawLeft == IF View(data).broadcastFrom = 1 THEN View(data).curr ELSE View(data).anot
RawRight == IF View(data).broadcastFrom = 1 THEN View(data).anot ELSE View(data).curr
RawCase == View(data).caseBox

\* C3 as stated: a raw nibble v in 0..10 decodes to the percentage v * 10
\* and a raw nibble 11..15 to the absent value, for left, right and case.
C3_PercentTimesTen ==
    pc = "decoded" =>
        /\ snapshot.leftBattery =
             (IF RawLeft \in 0..10 THEN [has |-> TRUE, val |-> RawLeft * 10]
                                   ELSE [has |-> FALSE, val |-> 0])
        /\ snapshot.rightBattery =
             (IF RawRight \in 0..10 THEN [has |-> TRUE, val |-> RawRight * 10]
                                    ELSE [has |-> FALSE, val |-> 0])
        /\ snapshot.caseBattery =
             (IF RawCase \in 0..10 THEN [has |-> TRUE, val |-> RawCase * 10]
                                   ELSE [has |-> FALSE, val |-> 0])

\* C3 amended: a raw nibble v in 0..10 decodes to the level v itself (the
\* number of 10% steps, raw 10 giving 10) and a raw nibble 11..15 to the
\* absent value, never clamped, for left, right and case.
C3_LevelIsNibble ==
    pc = "decoded" =>
        /\ snapshot.leftBattery = Level(RawLeft)
        /\ snapshot.rightBattery = Level(RawRight)
        /\ snapshot.caseBattery = Level(RawCase)
        /\ \A b \in {snapshot.leftBattery, snapshot.rightBattery,
                     snapshot.caseBattery} : b.has => b.val \in 0..10

C3_Witness ==
    /\ pc = "decoded"
    /\ RawCase = 10 /\ snapshot.caseBattery = [has |-> TRUE, val |-> 10]
    /\ RawLeft = 15 /\ ~snapshot.leftBattery.has
    /\ RawRight = 3 /\ snapshot.rightBattery.val = 3

\* the raw in-ear flag of the slot that belongs to each side
RawLeftInEar ==
    IF View(data).broadcastFrom = 1 THEN View(data).currInEar ELSE View(data).anotInEar
RawRightInEar ==
    IF View(data).broadcastFrom = 1 THEN View(data).anotInEar ELSE View(data).currInEar

\* C4: in a validated packet a side is in-ear if and only if it is not
\* charging and the in-ear flag of its slot is set; no side is both charging
\* and in-ear.
C4_InEarFiltered ==
    pc = "decoded" =>
        /\ snapshot.leftInEar = (~snapshot.leftCharging /\ RawLeftInEar = 1)
        /\ snapshot.rightInEar = (~snapshot.rightCharging /\ RawRightInEar = 1)
        /\ ~(snapshot.leftCharging /\ snapshot.leftInEar)
        /\ ~(snapshot.rightCharging /\ snapshot.rightInEar)

C4_Witness ==
    /\ pc = "decoded"
    /\ View(data).broadcastFrom = 0
    /\ View(data).currCharging = 1 /\ View(data).currInEar = 1
    /\ snapshot.rightCharging /\ ~snapshot.rightInEar
    /\ View(data).anotInEar = 1 /\ snapshot.leftInEar

\* C6: GetModel maps 0x2002, 0x200F, 0x200E to AirPods_1, AirPods_2,
\* AirPods_Pro and every other 16-bit modelId to Unknown; a packet is never
\* rejected because of its modelId.
C6_ModelTotal ==
    /\ pc = "decoded" =>
        LET id == At(data, OffModelId) + 256 * At(data, OffModelId + 1) IN
        /\ id = 8194 => snapshot.model = "AirPods_1"
        /\ id = 8207 => snapshot.model = "AirPods_2"
        /\ id = 8206 => snapshot.model = "AirPods_Pro"
        /\ id \notin {8194, 8207, 8206} => snapshot.model = "Unknown"
    /\ pc = "rejected" => ~(LengthOk /\ TypeOk /\ RemainingOk)

C6_Witness ==
    /\ pc = "decoded"
    /\ View(data).modelId = 65535
    /\ snapshot.model = "Unknown"

\* C7: IsLidOpened is true exactly for the lidState bytes 0..7 and false
\* for 8..255.
C7_LidOpened ==
    pc = "decoded" => snapshot.lidOpened = (At(data, OffLidState) \in 0..7)

C7_Witness ==
    /\ pc = "decoded"
    /\ At(data, OffLidState) = 0
    /\ snapshot.lidOpened

\* C8: IsValid reads no byte of a buffer whose length is not
\* AdvertisementSize and answers false for it; no read is ever at an offset
\* beyond the buffer.
C8_LengthFirst ==
    Checked =>
        /\ \A off \in reads : off < Len(data)
        /\ ~LengthOk => (reads = {} /\ ~valid /\ pc = "rejected")

C8_Witness ==
    /\ pc = "rejected"
    /\ Len(data) = 0
    /\ reads = {}

\* what the accessors return for the field values an advertisement was
\* built from, each field taken as it was encoded
EncodedSnapshot ==
    [ side          |-> fields.side,
      model         |-> fields.model,
      leftBattery   |-> [has |-> TRUE, val |-> fields.leftBattery],
      rightBattery  |-> [has |-> TRUE, val |-> fields.rightBattery],
      caseBattery   |-> [has |-> TRUE, val |-> fields.caseBattery],
      leftCharging  |-> fields.leftCharging,
      rightCharging |-> fields.rightCharging,
      caseCharging  |-> fields.caseCharging,
      leftInEar     |-> fields.leftInEar,
      rightInEar    |-> fields.rightInEar,
      bothInCase    |-> fields.bothInCase,
      lidOpened     |-> fields.lidOpened ]

\* C5 as stated: an advertisement built from any combination of in-range
\* field values validates, and every accessor returns the encoded value.
C5_RoundTripExact ==
    /\ pc # "rejected"
    /\ pc = "decoded" => snapshot = EncodedSnapshot

\* C5 amended: an advertisement built from any combination of in-range
\* field values validates, and every accessor returns the encoded value,
\* except that an in-ear accessor returns the encoded in-ear flag only when
\* that side was not encoded as charging, and false when it was.
C5_RoundTripFiltered ==
    /\ pc # "rejected"
    /\ pc = "decoded" =>
        snapshot = [EncodedSnapshot EXCEPT
                      !.leftInEar = fields.leftInEar /\ ~fields.leftCharging,
                      !.rightInEar = fields.rightInEar /\ ~fields.rightCharging]

C5_Witness ==
    /\ pc = "decoded"
    /\ fields.side = "Right"
    /\ fields.leftBattery = 5 /\ snapshot.leftBattery.val = 5
    /\ fields.rightBattery = 10 /\ snapshot.rightBattery.val = 10
    /\ fields.leftInEar /\ ~fields.leftCharging /\ snapshot.leftInEar
    /\ fields.rightInEar /\ fields.rightCharging /\ ~snapshot.rightInEar

(***************************************************************************)
(* The updater: a release response is parsed, then downloaded and          *)
(* installed.                                                              *)
(***************************************************************************)
MaxAssets == 3                   \* assets of a response

GoodUrl1 == <<UrlRepository, "/releases/download/1.1.0/a.exe">>
GoodUrl2 == <<UrlRepository, "/releases/download/1.1.0/b.exe">>
ForeignUrl == <<"https://example.org/?", UrlRepository>>

Name1 == <<"AirPodsDesktop-1.1.0-", "win32", ".", "exe">>
Name2 == <<"Setup-", "win32", ".", "tar", ".", "exe">>
NameZip == <<"AirPodsDesktop-1.1.0-", "win32", ".", "zip">>
NameLinux == <<"AirPodsDesktop-1.1.0-", "linux", ".", "exe">>
NameNoDot == <<"win32", "exe">>

NameMembers ==
    {Ok(Name1), Ok(Name2), Ok(NameZip), Ok(NameLinux), Ok(NameNoDot), Ok(<<>>),
     WrongType(<<>>), Missing(<<>>)}
SizeMembers == {Ok(0), Ok(7), Ok(9), WrongType(0), Missing(0)}
UrlMembers ==
    {Ok(GoodUrl1), Ok(GoodUrl2), Ok(ForeignUrl), Ok(<<>>),
     WrongType(<<>>), Missing(<<>>)}
TagMembers == {Ok(<<1, 1>>), Ok(<<1, 0>>), Ok(<<0, 9>>), WrongType(<<>>), Missing(<<>>)}
BodyMembers == {Ok(<<"Change log">>), Ok(<<>>), WrongType(<<>>), Missing(<<>>)}
HtmlUrlMembers ==
    {Ok(<<UrlRepository, "/releases/tag/1.1.0">>), Ok(ForeignUrl), Ok(<<>>),
     WrongType(<<>>), Missing(<<>>)}

Asset(n, sz, u) == [name |-> n, size |-> sz, url |-> u]

SampleAssets ==
    { Asset(Ok(Name1), Ok(7), Ok(GoodUrl1)),
      Asset(Ok(Name2), Ok(9), Ok(GoodUrl2)),
      Asset(Ok(NameZip), Ok(7), Ok(GoodUrl1)),
      Asset(Ok(NameLinux), Ok(9), Ok(GoodUrl2)),
      Asset(Ok(Name1), Ok(7), Ok(ForeignUrl)),
      Asset(Ok(Name1), Ok(0), Ok(GoodUrl1)),
      Asset(Ok(Name1), Missing(0), Ok(GoodUrl1)),
      Asset(WrongType(<<>>), Ok(7), Ok(GoodUrl1)) }

AssetLists == UNION { [1..n -> SampleAssets] : n \in 0..MaxAssets }

AssetsMembers ==
    {Ok(<<>>), Ok(<<Asset(Ok(Name1), Ok(7), Ok(GoodUrl1))>>),
     [kind |-> "null", v |-> <<>>], WrongType(<<>>), Missing(<<>>)}

Response(root, tag, body, url, assets) ==
    [root |-> root, tag_name |-> tag, body |-> body, html_url |-> url,
     assets |-> assets]

\* responses with every kind of root and top-level member
TopLevelSweep(r) ==
    \E root \in {"garbage", "nonobject", "object"}, tag \in TagMembers,
       body \in BodyMembers, url \in HtmlUrlMembers, assets \in AssetsMembers :
        r = Response(root, tag, body, url, assets)

\* well-formed responses with one asset of every kind
OneAssetSweep(r) ==
    \E n \in NameMembers, sz \in SizeMembers, u \in UrlMembers :
        r = Response("object", Ok(<<1, 1>>), Ok(<<>>),
                     Ok(<<UrlRepository, "/releases/tag/1.1.0">>),
                     Ok(<<Asset(n, sz, u)>>))

\* well-formed responses with every list of sample assets
AssetListSweep(r) ==
    \E as \in AssetLists :
        r = Response("object", Ok(<<1, 1>>), Ok(<<"Change log">>),
                     Ok(<<UrlRepository, "/releases/tag/1.1.0">>), Ok(as))

Envs ==
    [ tempDirValid : BOOLEAN, statusCode : {HttpOk, 404},
      downloadedBytes : {0, 7, 9}, startDetached : BOOLEAN ]

DecoderIdle ==
    /\ data = <<>>
    /\ fields = NoFields
    /\ pc = "idle"
    /\ valid = FALSE
    /\ reads = {}
    /\ snapshot = NoSnapshot

UpdateInit ==
    /\ DecoderIdle
    /\ \/ TopLevelSweep(response)
       \/ OneAssetSweep(response)
       \/ AssetListSweep(response)
    /\ release = ReturnedNullopt
    /\ upc = "fetched"
    /\ env = NoEnv
    /\ install = NoInstall

Parse ==
    /\ upc = "fetched"
    /\ \E o \in ParseReleaseResponse(response) :
        /\ release' = o
        /\ upc' = IF o.kind = "abort" THEN "aborted" ELSE "parsed"
    /\ UNCHANGED <<response, env, install>>
    /\ UNCHANGED decVars

DownloadInstall ==
    /\ upc = "parsed"
    /\ release.kind = "info"
    /\ NeedToUpdate(release.info)            \* APD_ASSERT
    /\ \E e \in Envs :
        /\ env' = e
        /\ install' = DownloadInstallRun(release.info, e)
    /\ upc' = "installed"
    /\ UNCHANGED <<response, release>>
    /\ UNCHANGED decVars

UpdateNext == Parse \/ DownloadInstall

UpdateSpec == UpdateInit /\ [][UpdateNext]_vars

(***************************************************************************)
(* Properties of the updater.                                              *)
(***************************************************************************)
InstallOrder == <<"QTemporaryDir", "Download", "startDetached", "QuitSafety">>

IsPrefix(s, t) == Len(s) <= Len(t) /\ s = SubSeq(t, 1, Len(s))

Contains(s, x) == \E i \in 1..Len(s) : s[i] = x

\* C9: DownloadInstall takes its steps in a fixed order and stops at the
\* first failure: the installer is launched only after CanAutoUpdate held,
\* the temporary directory was created, the download answered 200 and the
\* byte count equalled fileSize; QuitSafety is called and Success returned
\* only after the launch succeeded; every failure returns its own status,
\* never asks to quit, and before the launch step starts no installer.
C9_InstallOrder ==
    upc = "installed" =>
        LET info == release.info
            can == info.fileName # <<>> /\ info.downloadUrl # <<>>
                       /\ info.fileSize # 0
            downloaded == can /\ env.tempDirValid /\ env.statusCode = 200
                              /\ env.downloadedBytes = info.fileSize
        IN
        /\ IsPrefix(install.steps, InstallOrder)
        /\ Contains(install.steps, "startDetached") = downloaded
        /\ install.started = (downloaded /\ env.startDetached)
        /\ install.quit = install.started
        /\ Contains(install.steps, "QuitSafety") = install.quit
        /\ (install.status = "Success") = install.quit
        /\ install.status =
             (CASE ~can -> "UpdateDownloadCannotAutoUpdate"
                [] can /\ ~env.tempDirValid -> "UpdateDownloadCreateDirectoryFailed"
                [] can /\ env.tempDirValid /\ env.statusCode # 200 ->
                       "UpdateDownloadStatusCodeIsNot200"
                [] can /\ env.tempDirValid /\ env.statusCode = 200
                       /\ env.downloadedBytes # info.fileSize ->
                       "UpdateDownloadFileSizeMismatch"
                [] downloaded /\ ~env.startDetached ->
                       "UpdateDownloadStartInstallerFailed"
                [] OTHER -> "Success")

C9_Witness ==
    /\ upc = "installed"
    /\ install.status = "Success"
    /\ install.steps = InstallOrder
    /\ env.downloadedBytes = release.info.fileSize
    /\ release.info.fileSize = 9

\* an asset that has all five properties of a usable installer
Usable(a) ==
    /\ a.name.kind = "ok" /\ a.size.kind = "ok" /\ a.url.kind = "ok"
    /\ a.name.v # <<>>
    /\ a.size.v # 0
    /\ Len(a.url.v) > 0 /\ a.url.v[1] = UrlRepository
    /\ Suffix(a.name.v) = <<"exe">>
    /\ Contains(a.name.v, SystemName)

\* the text is JSON with every expected member, of the expected type
WellFormed(r) ==
    /\ r.root = "object"
    /\ r.tag_name.kind = "ok" /\ r.body.kind = "ok" /\ r.html_url.kind = "ok"
    /\ r.assets.kind = "ok"
    /\ \A i \in 1..Len(r.assets.v) :
        /\ r.assets.v[i].name.kind = "ok"
        /\ r.assets.v[i].size.kind = "ok"
        /\ r.assets.v[i].url.kind = "ok"

HtmlUrlInRepository(r) ==
    Len(r.html_url.v) > 0 /\ r.html_url.v[1] = UrlRepository

\* C10: ParseReleaseResponse selects the first asset in list order that is
\* usable; the returned ReleaseInfo satisfies CanAutoUpdate exactly when
\* there is one, and then carries its name, URL and size; a response whose
\* html_url is outside the repository, or that is not JSON with the
\* expected members, yields no ReleaseInfo at all.
C10_ParseSelectsFirst ==
    upc \in {"parsed", "aborted", "installed"} =>
        /\ release.kind = "info" =>
            LET as == IF response.assets.kind = "ok" THEN response.assets.v
                      ELSE <<>>
                usable == {i \in 1..Len(as) : Usable(as[i])}
            IN  /\ CanAutoUpdate(release.info) = (usable # {})
                /\ usable # {} =>
                    /\ release.info.fileName = as[Min(usable)].name.v
                    /\ release.info.downloadUrl = as[Min(usable)].url.v
                    /\ release.info.fileSize = as[Min(usable)].size.v
        /\ (~WellFormed(response) \/ ~HtmlUrlInRepository(response)) =>
            release.kind = "nullopt"

====
